---- MODULE Spec2Model ----
(***************************************************************************)
(* folly::AutoTimer (folly/experimental/AutoTimer.h).                      *)
(*                                                                         *)
(* Time is counted in ticks of Clock; a duration and the threshold         *)
(* minTimeToLog_ are numbers of ticks (the code converts the tick count to *)
(* a double number of seconds, which is exact on the range modelled).      *)
(* One thread drives the timers: a call of log is a sequence of steps      *)
(* (capture now, build the message, call the logger, reset start_), and    *)
(* the clock may advance between any two of them.                          *)
(*                                                                         *)
(* Timer 1 is made by the constructor; timer 2 is move-constructed from    *)
(* timer 1 (directly, or inside makeAutoTimer when the copy is not         *)
(* elided).                                                                *)
(***************************************************************************)
EXTENDS Integers, Sequences, FiniteSets, TLC

\* Bounds of the model: the last clock reading and the number of explicit reports.
MaxTime == 3
MaxReports == 2

Ids == {1, 2}
DtorMsgs == {"", "work"}
ReportMsgs == {"", "step1"}
Thresholds == {0, 1, 2}
\* Logger template argument: GoogleLogger<SECONDS>, GoogleLogger<PRETTY>, or a
\* user-supplied callable.
Styles == {"SECONDS", "PRETTY", "CUSTOM"}
GoogleStyles == {"SECONDS", "PRETTY"}
NoExc == "none"
Excs == {"E1", "E2"}
ExitPaths == {"normal", "early", "unwind"}

VARIABLES
  clock,                \* what Clock::now() returns
  style,                \* the Logger type of the timers
  life,                 \* per instance: "none", "alive", "dying" (in ~AutoTimer), "dead"
  destructionMessage_,  \* per instance
  start_,               \* per instance
  minTimeToLog_,        \* per instance
  movedFrom,            \* per instance: it was the source of a move construction
  finalReports,         \* per instance: the reports made by ~AutoTimer
  exitPath,             \* per instance: how its scope was left
  \* History of the timer that owns the final report (timer 1, and timer 2 once
  \* timer 1 was moved into it):
  lastEnd,              \* clock at construction / at the end of the last completed report
  failedStart,          \* start_ at a failed report not yet followed by a completed one, or -1
  anyFailed,            \* a logger call has failed
  rets,                 \* the values the explicit reports returned (-1: it threw)
  twinStart,            \* twinStart[t]: start_ of the same timer built with threshold t
  twinRets,             \* twinRets[t]: the values that timer's explicit reports returned
  loggerTick,           \* the last tick [k-1, k) spent in a logger call, or 0
  loggerTickOk,         \* the same, among the logger calls that returned
  buildTickOk,          \* the last tick spent building the message of a completed report, or 0
  nReports,             \* explicit reports made so far
  \* The current report, or the last one when pc = "idle":
  pc,                   \* "idle", "ret_move", "ret_dtor", "format", "logger", "reset", "terminated"
  cur,                  \* its timer
  kind,                 \* "none", "log", "args", "dtor"
  msg,
  entry,                \* clock when the report was called
  now,                  \* the local now / the argument now of logImpl
  buildEnd,             \* clock when the message was built, or -1
  duration,
  startAtCall,          \* start_ when the report was called
  endAtCall,            \* lastEnd when the report was called
  loggerEnd,            \* clock when the logger call ended, or -1
  raised,               \* the exception the logger call ended with, or NoExc
  invoked,              \* the logger calls of this report: <<message, seconds>>
  out,                  \* the lines the logger emitted in this report
  result                \* what the caller of the report got

timerVars == <<style, life, destructionMessage_, start_, minTimeToLog_, movedFrom>>
dtorVars == <<finalReports, exitPath>>
histVars == <<lastEnd, failedStart, anyFailed, rets, twinStart, twinRets, loggerTick,
              loggerTickOk, buildTickOk, nReports>>
callVars == <<pc, cur, kind, msg, entry, now, buildEnd, duration, startAtCall,
              endAtCall, loggerEnd, raised, invoked, out, result>>
vars == <<clock, timerVars, dtorVars, histVars, callVars>>

NoResult == [kind |-> "none", exc |-> NoExc, value |-> -1]

----------------------------------------------------------------------------
(* The code's expressions.                                                 *)

\* duration_cast<duration<double>>(now - start_).count()
Elapsed(n, s) == n - s

\* Variant: the threshold test is strict.
ShouldLogStrict(d, m) == d > m
\* if (duration >= minTimeToLog_)
ShouldLog(d, m) == d >= m

\* Variant: start_ is reset to the reading taken before the logger call.
ResetTimeBeforeLogger(before, after) == before
\* start_ = Clock::now() is the statement after the logger call
ResetTime(before, after) == after

\* Variant: start_ is reset only when the logger was called.
NewStartIfLogged(logged, old, t) == IF logged THEN t ELSE old
\* start_ = Clock::now() is outside the if
NewStart(logged, old, t) == t

\* Variant: a suppressed report returns 0.
ReturnValueIfLogged(d, logged) == IF logged THEN d ELSE 0
\* return duration
ReturnValue(d, logged) == d

\* Variant: logImpl(Clock::now(), to<std::string>(args...)), the clock read last.
ArgsNowAfterBuild(atEntry, afterBuild) == afterBuild
\* auto now = Clock::now(); return logImpl(now, to<std::string>(args...))
ArgsNow(atEntry, afterBuild) == atEntry

\* Variant: ~AutoTimer calls log().
DtorMsgEmpty(m) == ""
\* log(destructionMessage_)
DtorMsg(m) == m

\* Variant: logImpl catches what the logger throws and goes on.
OnLoggerThrowSwallow(e) == [kind |-> "returned", exc |-> NoExc, value |-> -1]
\* logger_(msg, duration) is called outside any try block
OnLoggerThrow(e) == [kind |-> "threw", exc |-> e, value |-> -1]

\* Variant: start_ is reset on the way out of a failed logger call.
StartAfterThrowReset(old, t) == t
\* the exception leaves logImpl before start_ = Clock::now()
StartAfterThrow(old, t) == old

\* prettyPrint(sec, PrettyType::PRETTY_TIME) of folly/String.h
prettyPrint(sec) == <<"pretty", sec>>

\* Variant: no test of msg.empty().
GoogleLoggerNoCheck(st, m, sec) ==
  IF st = "PRETTY" THEN << <<m, " in ", prettyPrint(sec)>> >>
  ELSE << <<m, " in ", sec, " seconds">> >>
\* GoogleLogger<Style>::operator(): the lines LOG(INFO) gets
GoogleLogger(st, m, sec) ==
  IF m = "" THEN <<>>
  ELSE IF st = "PRETTY" THEN << <<m, " in ", prettyPrint(sec)>> >>
  ELSE << <<m, " in ", sec, " seconds">> >>

\* What the logger_ member emits when called.
LoggerOutput(st, m, sec) == IF st \in GoogleStyles THEN GoogleLogger(st, m, sec) ELSE <<>>

\* LOG(INFO) does not throw; a user-supplied logger may.
FailChoices(st) == IF st = "CUSTOM" THEN {NoExc} \cup Excs ELSE {NoExc}

\* The members of the source of AutoTimer(AutoTimer&&) = default after the move:
\* destructionMessage_ is const, so it is copied and the source keeps it.
MovedFromMsg(m) == m

----------------------------------------------------------------------------
\* No timer exists yet.
Init ==
  /\ clock \in {0, 1}
  /\ style \in Styles
  /\ life = [i \in Ids |-> "none"]
  /\ destructionMessage_ = [i \in Ids |-> ""]
  /\ start_ = [i \in Ids |-> 0]
  /\ minTimeToLog_ = [i \in Ids |-> 0]
  /\ movedFrom = [i \in Ids |-> FALSE]
  /\ finalReports = [i \in Ids |-> 0]
  /\ exitPath = [i \in Ids |-> "none"]
  /\ lastEnd = 0
  /\ failedStart = -1
  /\ anyFailed = FALSE
  /\ rets = <<>>
  /\ twinStart = [t \in Thresholds |-> 0]
  /\ twinRets = [t \in Thresholds |-> <<>>]
  /\ loggerTick = 0
  /\ loggerTickOk = 0
  /\ buildTickOk = 0
  /\ nReports = 0
  /\ pc = "idle"
  /\ cur = 1
  /\ kind = "none"
  /\ msg = ""
  /\ entry = 0
  /\ now = 0
  /\ buildEnd = -1
  /\ duration = 0
  /\ startAtCall = 0
  /\ endAtCall = 0
  /\ loggerEnd = -1
  /\ raised = NoExc
  /\ invoked = <<>>
  /\ out = <<>>
  /\ result = NoResult

\* Time passes while the thread is outside the timer, builds a message or is
\* inside the logger.
Tick ==
  /\ clock < MaxTime
  /\ pc \in {"idle", "format", "logger"}
  /\ \E i \in Ids : life[i] # "none"
  /\ clock' = clock + 1
  /\ UNCHANGED <<timerVars, dtorVars, histVars, callVars>>

\* The members after AutoTimer(msg, minTimeToLog, logger) ran on timer 1.
Constructed(m, mn) ==
  /\ life' = [life EXCEPT ![1] = "alive"]
  /\ destructionMessage_' = [destructionMessage_ EXCEPT ![1] = m]
  /\ minTimeToLog_' = [minTimeToLog_ EXCEPT ![1] = mn]
  /\ start_' = [start_ EXCEPT ![1] = clock]
  /\ lastEnd' = clock
  /\ twinStart' = [t \in Thresholds |-> clock]
  /\ UNCHANGED <<clock, style, movedFrom, dtorVars, failedStart, anyFailed, rets,
                 twinRets, loggerTick, loggerTickOk, buildTickOk, nReports>>

\* explicit AutoTimer(std::string&& msg, double minTimetoLog, Logger&& logger)
Construct(m, mn) ==
  /\ pc = "idle"
  /\ \A i \in Ids : life[i] = "none"
  /\ Constructed(m, mn)
  /\ UNCHANGED callVars

\* makeAutoTimer: the returned prvalue is built in place (elide), or it is a
\* temporary that is moved into the result and then destroyed.
MakeAutoTimer(m, mn, elide) ==
  /\ pc = "idle"
  /\ \A i \in Ids : life[i] = "none"
  /\ Constructed(m, mn)
  /\ pc' = IF elide THEN "idle" ELSE "ret_move"
  /\ UNCHANGED <<cur, kind, msg, entry, now, buildEnd, duration, startAtCall,
                 endAtCall, loggerEnd, raised, invoked, out, result>>

\* AutoTimer(AutoTimer&&) = default: timer 2 is move-constructed from timer 1.
Move ==
  /\ pc \in {"idle", "ret_move"}
  /\ life[1] = "alive"
  /\ life[2] = "none"
  /\ life' = [life EXCEPT ![2] = "alive"]
  /\ destructionMessage_' = [destructionMessage_ EXCEPT
                               ![2] = destructionMessage_[1],
                               ![1] = MovedFromMsg(destructionMessage_[1])]
  /\ minTimeToLog_' = [minTimeToLog_ EXCEPT ![2] = minTimeToLog_[1]]
  /\ start_' = [start_ EXCEPT ![2] = start_[1]]
  /\ movedFrom' = [movedFrom EXCEPT ![1] = TRUE]
  /\ pc' = IF pc = "ret_move" THEN "ret_dtor" ELSE "idle"
  /\ UNCHANGED <<clock, style, dtorVars, histVars, cur, kind, msg, entry, now,
                 buildEnd, duration, startAtCall, endAtCall, loggerEnd, raised, invoked, out,
                 result>>

\* The head of logImpl(n, m) on timer i: the duration and the threshold test.
EnterLogImpl(i, n) ==
  /\ now' = n
  /\ duration' = Elapsed(n, start_[i])
  /\ pc' = IF ShouldLog(Elapsed(n, start_[i]), minTimeToLog_[i]) THEN "logger" ELSE "reset"

\* A report begins on timer i.
BeginCall(i, k, m) ==
  /\ cur' = i
  /\ kind' = k
  /\ msg' = m
  /\ entry' = clock
  /\ buildEnd' = -1
  /\ startAtCall' = start_[i]
  /\ endAtCall' = lastEnd
  /\ loggerEnd' = -1
  /\ raised' = NoExc
  /\ invoked' = <<>>
  /\ out' = <<>>
  /\ result' = NoResult

\* double log(StringPiece msg = ""). The program makes no explicit report on a
\* timer it has moved from.
Log(i, m) ==
  /\ pc = "idle"
  /\ life[i] = "alive"
  /\ ~movedFrom[i]
  /\ nReports < MaxReports
  /\ nReports' = nReports + 1
  /\ BeginCall(i, "log", m)
  /\ EnterLogImpl(i, clock)
  /\ UNCHANGED <<clock, timerVars, dtorVars, lastEnd, failedStart, anyFailed, rets,
                 twinStart, twinRets, loggerTick, loggerTickOk, buildTickOk>>

\* double log(Args&&...) and double logFormat(Args&&...): now is captured,
\* then the message is built.
LogArgs(i, m) ==
  /\ pc = "idle"
  /\ life[i] = "alive"
  /\ ~movedFrom[i]
  /\ nReports < MaxReports
  /\ nReports' = nReports + 1
  /\ BeginCall(i, "args", m)
  /\ now' = clock
  /\ pc' = "format"
  /\ UNCHANGED <<clock, timerVars, dtorVars, lastEnd, failedStart, anyFailed, rets,
                 twinStart, twinRets, loggerTick, loggerTickOk, buildTickOk, duration>>

\* to<std::string>(args...) / format(args...).str() returned: logImpl(now, message)
BuildDone ==
  /\ pc = "format"
  /\ buildEnd' = clock
  /\ EnterLogImpl(cur, ArgsNow(now, clock))
  /\ UNCHANGED <<clock, timerVars, dtorVars, histVars, cur, kind, msg, entry,
                 startAtCall, endAtCall, loggerEnd, raised, invoked, out, result>>

\* ~AutoTimer() { log(destructionMessage_); }  The scope of timer i ends; the
\* temporary of makeAutoTimer dies at the end of the return statement.
Destroy(i, path) ==
  /\ \/ pc = "idle" /\ (path = "unwind" => result.kind = "threw")
     \/ pc = "ret_dtor" /\ i = 1 /\ path = "normal"
  /\ life[i] = "alive"
  /\ life' = [life EXCEPT ![i] = "dying"]
  /\ exitPath' = [exitPath EXCEPT ![i] = path]
  /\ finalReports' = [finalReports EXCEPT ![i] = @ + 1]
  /\ BeginCall(i, "dtor", DtorMsg(destructionMessage_[i]))
  /\ EnterLogImpl(i, clock)
  /\ UNCHANGED <<clock, style, destructionMessage_, start_, minTimeToLog_,
                 movedFrom, histVars>>

\* The same timer built with threshold t, given the same clock readings and the
\* same logger: its logger call fails when this timer's does.
TwinLogs(t) == ShouldLog(Elapsed(now, twinStart[t]), t)
TwinStartAfter(t, failed, at) ==
  IF failed /\ TwinLogs(t) THEN StartAfterThrow(twinStart[t], at)
  ELSE NewStart(TwinLogs(t), twinStart[t], ResetTime(now, at))
TwinRetsAfter(t, failed) ==
  IF kind = "dtor" THEN twinRets[t]
  ELSE IF failed /\ TwinLogs(t) THEN Append(twinRets[t], -1)
  ELSE Append(twinRets[t], ReturnValue(Elapsed(now, twinStart[t]), TwinLogs(t)))

\* The clock reading at which logImpl was entered in the current report.
ImplAt == IF kind = "args" THEN buildEnd ELSE entry

\* logger_(msg, duration): the call ends, by a return or by the exception f. An
\* exception leaves logImpl and log; out of ~AutoTimer (noexcept) it ends the
\* program.
CallLogger(f) ==
  /\ pc = "logger"
  /\ invoked' = Append(invoked, <<msg, duration>>)
  /\ loggerEnd' = clock
  /\ raised' = f
  /\ out' = out \o LoggerOutput(style, msg, duration)
  /\ loggerTick' = IF clock > ImplAt /\ ~movedFrom[cur] THEN clock ELSE loggerTick
  /\ LET r == IF f = NoExc THEN NoResult ELSE OnLoggerThrow(f) IN
     IF r.kind = "threw"
     THEN /\ result' = r
          /\ start_' = [start_ EXCEPT ![cur] = StartAfterThrow(@, clock)]
          /\ pc' = IF kind = "dtor" THEN "terminated" ELSE "idle"
          /\ IF movedFrom[cur]
             THEN UNCHANGED <<failedStart, anyFailed, rets, twinStart, twinRets>>
             ELSE /\ failedStart' = startAtCall
                  /\ rets' = IF kind = "dtor" THEN rets ELSE Append(rets, -1)
                  /\ anyFailed' = TRUE
                  /\ twinStart' = [t \in Thresholds |-> TwinStartAfter(t, TRUE, clock)]
                  /\ twinRets' = [t \in Thresholds |-> TwinRetsAfter(t, TRUE)]
          /\ UNCHANGED loggerTickOk
     ELSE /\ pc' = "reset"
          /\ loggerTickOk' = IF clock > ImplAt /\ ~movedFrom[cur] THEN clock
                             ELSE loggerTickOk
          /\ UNCHANGED <<result, start_, failedStart, anyFailed, rets, twinStart,
                         twinRets>>
  /\ UNCHANGED <<clock, style, life, destructionMessage_, minTimeToLog_, movedFrom,
                 dtorVars, lastEnd, buildTickOk, nReports, cur, kind, msg, entry,
                 now, buildEnd, duration, startAtCall, endAtCall>>

\* start_ = Clock::now(); return duration;  (and the end of ~AutoTimer)
Reset ==
  /\ pc = "reset"
  /\ start_' = [start_ EXCEPT ![cur] = NewStart(invoked # <<>>, @, ResetTime(now, clock))]
  /\ result' = [kind |-> "returned", exc |-> NoExc,
                value |-> ReturnValue(duration, invoked # <<>>)]
  /\ life' = IF kind = "dtor" THEN [life EXCEPT ![cur] = "dead"] ELSE life
  /\ pc' = "idle"
  /\ IF movedFrom[cur]
     THEN UNCHANGED <<lastEnd, failedStart, rets, twinStart, twinRets, buildTickOk>>
     ELSE /\ lastEnd' = clock
          /\ failedStart' = -1
          /\ rets' = IF kind = "dtor" THEN rets
                     ELSE Append(rets, ReturnValue(duration, invoked # <<>>))
          /\ twinStart' = [t \in Thresholds |-> TwinStartAfter(t, FALSE, clock)]
          /\ twinRets' = [t \in Thresholds |-> TwinRetsAfter(t, FALSE)]
          /\ buildTickOk' = IF buildEnd > entry THEN buildEnd ELSE buildTickOk
  /\ UNCHANGED <<clock, style, destructionMessage_, minTimeToLog_, movedFrom,
                 dtorVars, anyFailed, loggerTick, loggerTickOk, nReports, cur, kind,
                 msg, entry, now, buildEnd, duration, startAtCall, endAtCall,
                 loggerEnd, raised, invoked, out>>

----------------------------------------------------------------------------
(* The claims.                                                              *)

\* The duration of the current (or last) report has been computed.
Measured == kind # "none" /\ pc # "format"

\* The logger stage of the current (or last) report is over.
LoggerPassed == Measured /\ pc # "logger"

\* Timer i owns the final report.
Owner(i) == life[i] \in {"alive", "dying"} /\ ~movedFrom[i]

\* The tick [k-1, k) lies in the interval [startAtCall, now) the report measures.
InInterval(k) == k >= 1 /\ startAtCall <= k - 1 /\ k <= now

\* C1: in every report, with elapsed = the clock at the call minus the
\* checkpoint, the logger is called exactly once, with (message, elapsed), when
\* elapsed >= minTimeToLog_, and not at all when elapsed < minTimeToLog_.
C1_LoggerCalledIffThresholdReached ==
  LoggerPassed =>
    /\ duration = entry - startAtCall
    /\ duration >= minTimeToLog_[cur] => invoked = << <<msg, duration>> >>
    /\ duration < minTimeToLog_[cur] => invoked = <<>>

\* C1's case: a report whose elapsed time equals the threshold called the logger.
C1_Witness ==
  /\ LoggerPassed
  /\ duration = minTimeToLog_[cur]
  /\ duration > 0
  /\ invoked = << <<msg, duration>> >>

\* C2: a timer that was not moved from makes exactly one final report when its
\* scope ends, on every exit path, with the destruction message and measured
\* from the checkpoint of that moment (the last completed report, or the
\* construction); never more than one.
C2_OneFinalReport ==
  \A i \in Ids :
    /\ finalReports[i] <= 1
    /\ (life[i] \in {"dying", "dead"} /\ ~movedFrom[i]) =>
          /\ finalReports[i] = 1
          /\ exitPath[i] \in ExitPaths
          /\ kind = "dtor" /\ cur = i
    /\ (kind = "dtor" /\ cur = i /\ ~movedFrom[i]) =>
          /\ msg = destructionMessage_[i]
          /\ duration = entry - endAtCall
          /\ (LoggerPassed /\ duration >= minTimeToLog_[i])
                => invoked = << <<destructionMessage_[i], entry - endAtCall>> >>

\* C2's case: a report failed, the stack unwound, and the final report logged
\* the destruction message with the time since the checkpoint.
C2_Witness ==
  /\ life[1] = "dead"
  /\ exitPath[1] = "unwind"
  /\ destructionMessage_[1] = "work"
  /\ nReports > 0
  /\ duration > 0
  /\ invoked = << <<"work", duration>> >>

\* C3: the source of a move makes no final report when its scope ends: its
\* destructor hands no message to the logger.
C3_MovedFromDoesNotReport ==
  \A i \in Ids :
    (movedFrom[i] /\ kind = "dtor" /\ cur = i) => (invoked = <<>> \/ invoked[1][1] = "")

C5_CheckpointIsLastReportEnd ==
  /\ \A i \in Ids : Owner(i) => start_[i] = lastEnd
  /\ (Measured /\ entry = endAtCall) => duration = 0
  /\ (result.kind = "returned" /\ entry = endAtCall) => result.value = 0

\* C5's case: a report suppressed by the threshold, then a second report at
\* the same clock reading.
C5_Witness ==
  /\ Len(rets) = 2
  /\ rets[1] > 0
  /\ rets[1] < minTimeToLog_[1]
  /\ rets[2] = 0
  /\ entry = endAtCall
  /\ entry > 0

C7_DefaultLoggerSilentOnEmptyMessage ==
  style \in GoogleStyles =>
    /\ invoked = <<>> => out = <<>>
    /\ invoked # <<>> =>
          IF invoked[1][1] = "" THEN out = <<>>
          ELSE Len(out) = 1 /\ out[1][1] = invoked[1][1]
    /\ (kind = "dtor" /\ destructionMessage_[cur] = "") => out = <<>>

\* C7's case: the final report called GoogleLogger with the empty message, above
\* a positive threshold, and nothing was emitted.
C7_Witness ==
  /\ style = "PRETTY"
  /\ kind = "dtor"
  /\ invoked = << <<"", duration>> >>
  /\ minTimeToLog_[cur] > 0
  /\ out = <<>>
  /\ life[cur] = "dead"

\* C8: when the logger fails in an explicit report, the caller of the report
\* gets that failure, and the logger was called once.
C8_LoggerFailureReachesCaller ==
  (kind \in {"log", "args"} /\ raised # NoExc) =>
    /\ pc = "idle"
    /\ result = [kind |-> "threw", exc |-> raised, value |-> -1]
    /\ invoked = << <<msg, duration>> >>

\* C8's case: the logger failed with E2 in a report with a built message.
C8_Witness ==
  /\ kind = "args"
  /\ raised = "E2"
  /\ result.kind = "threw"

\* C9 as stated: the time spent building the message is part of the elapsed
\* value the report returns.
C9_BuildTimeInReturnedValue ==
  (kind = "args" /\ result.kind = "returned") => result.value = buildEnd - startAtCall

\* C9 amended: the elapsed value of a report with a built message ends where
\* the report was called, before the message is built, and no tick spent
\* building the message of a completed report lies in a measured interval.
C9_BuildTimeInNoInterval ==
  /\ (kind = "args" /\ Measured) => duration = entry - startAtCall
  /\ (kind = "args" /\ result.kind = "returned") => result.value = entry - startAtCall
  /\ (Measured /\ ~movedFrom[cur]) => ~InInterval(buildTickOk)

\* C9's case: building the message took time, twice, and the second report
\* measured a positive interval that starts after the first build.
C9_Witness ==
  /\ result.kind = "returned"
  /\ kind = "args"
  /\ buildEnd > entry
  /\ Len(rets) = 2
  /\ rets[1] >= 0
  /\ result.value > 0
  /\ startAtCall > 0

\* C10: after the logger failed in a report, the checkpoint is the one the
\* failed report measured from, and the next report measures from it.
C10_FailedReportKeepsCheckpoint ==
  failedStart # -1 =>
    /\ \A i \in Ids : Owner(i) => start_[i] = failedStart
    /\ Measured => (startAtCall = failedStart /\ duration = now - failedStart)

\* C10's case: the logger failed after time had passed, more time passed, and
\* the final report measures from the old checkpoint.
C10_Witness ==
  /\ failedStart # -1
  /\ kind = "dtor"
  /\ Measured
  /\ nReports > 0
  /\ exitPath[cur] = "unwind"
  /\ entry > failedStart + 1
  /\ duration = entry - failedStart

\* One timer, never moved: construction, reports, end of scope.
Next ==
  \/ Tick
  \/ \E m \in DtorMsgs, mn \in Thresholds : Construct(m, mn)
  \/ \E i \in Ids, m \in ReportMsgs : Log(i, m)
  \/ \E i \in Ids, m \in ReportMsgs : LogArgs(i, m)
  \/ BuildDone
  \/ \E f \in FailChoices(style) : CallLogger(f)
  \/ Reset
  \/ \E i \in Ids, path \in ExitPaths : Destroy(i, path)

Spec == Init /\ [][Next]_vars

\* Programs that move the timer: makeAutoTimer, or AutoTimer b(std::move(a)).
MoveNext ==
  \/ Tick
  \/ \E m \in DtorMsgs, mn \in Thresholds : Construct(m, mn)
  \/ \E m \in DtorMsgs, mn \in Thresholds, elide \in BOOLEAN : MakeAutoTimer(m, mn, elide)
  \/ Move
  \/ \E i \in Ids, m \in ReportMsgs : Log(i, m)
  \/ \E f \in FailChoices(style) : CallLogger(f)
  \/ Reset
  \/ \E i \in Ids, path \in ExitPaths : Destroy(i, path)

MoveSpec == Init /\ [][MoveNext]_vars

====
